---------------------------- MODULE Spec2Model ----------------------------
(***************************************************************************)
(* A model of torch/nn/quantized/modules/conv.py: the quantized Conv2d     *)
(* module, its packed-weight lifecycle, forward, the two serialisation     *)
(* paths (state dict and positional state tuple) and from_float.           *)
(*                                                                         *)
(* Tensors are abstracted to their metadata (shape, dtype, quantization    *)
(* parameters) and one representative element.  A Python float is the      *)
(* fraction [n, d] it is exactly: d a power of two, n of at most 53 bits   *)
(* (IsBinary64); a float32 tensor element has at most 24 (F32).  Float     *)
(* arithmetic rounds to that form.  Quantized integers keep their width.   *)
(***************************************************************************)
EXTENDS Integers, Sequences, FiniteSets, TLC

VARIABLES
    mod,        \* the quantized Conv2d module object (its attribute dict)
    saved,      \* the caller's most recent export: state dict or tuple
    pristine,   \* mod was produced by __init__/set_weight/from_float only
    last        \* what the most recent call did (its arguments and outcome)

vars == <<mod, saved, pristine, last>>

None == [kind |-> "None"]

-----------------------------------------------------------------------------
(* Exact rational arithmetic for Python floats.                            *)

Abs(x) == IF x < 0 THEN -x ELSE x

RECURSIVE GCD(_, _)
GCD(a, b) == IF b = 0 THEN a ELSE GCD(b, a % b)

Rat(n, d) == LET g == GCD(Abs(n), d) IN [n |-> n \div g, d |-> d \div g]

RatMul(a, b) == Rat(a.n * b.n, a.d * b.d)

RatDiv(a, b) == Rat(a.n * b.d, a.d * b.n)

RatAdd(a, b) == Rat(a.n * b.d + b.n * a.d, a.d * b.d)

RatSub(a, b) == Rat(a.n * b.d - b.n * a.d, a.d * b.d)

RatOne == Rat(1, 1)

-----------------------------------------------------------------------------
(* Python floats (IEEE binary64).                                          *)

BINARY64_MANTISSA_BITS == 53

Pow2(k) == 2 ^ k

\* The number of binary digits of n >= 0
RECURSIVE BitLen(_)
BitLen(n) == IF n = 0 THEN 0 ELSE 1 + BitLen(n \div 2)

IsPow2(d) == d >= 1 /\ d = Pow2(BitLen(d) - 1)

\* x is a value a Python float can hold
IsBinary64(x) ==
    IsPow2(x.d) /\ BitLen(Abs(x.n)) <= BINARY64_MANTISSA_BITS

RoundHalfEven(n, d) ==
    LET q == n \div d
        r == n % d
    IN  IF 2 * r > d \/ (2 * r = d /\ q % 2 = 1) THEN q + 1 ELSE q

\* The float nearest to n / d, d a power of two: n keeps its leading 53
\* bits, the rest is rounded half to even
Binary64(n, d) ==
    LET excess == BitLen(Abs(n)) - BINARY64_MANTISSA_BITS
    IN  IF excess <= 0
        THEN Rat(n, d)
        ELSE LET q == RoundHalfEven(Abs(n), Pow2(excess))
                 g == GCD(Pow2(excess), d)
             IN  Rat((IF n < 0 THEN -q ELSE q) * (Pow2(excess) \div g),
                     d \div g)

\* a * b of two Python floats: the exact product rounded to a float
FloatMul(a, b) == Binary64(a.n * b.n, a.d * b.d)

\* a / k of a Python float and a power of two k
FloatDivPow2(a, k) == Binary64(a.n, a.d * k)

\* The magnitude of round-half-even(mag * a / b), saturated at cap; over
\* tells that the exact value exceeds cap.  Computed without forming
\* mag * a, which need not fit the checker's integers.
RoundedMag(mag, a, b, cap) ==
    LET k    == mag \div b
        r    == mag % b
        ip   == (r * a) \div b
        rem  == (r * a) % b
        odd  == ((k % 2) * (a % 2) + ip) % 2 = 1
        up   == IF 2 * rem > b \/ (2 * rem = b /\ odd) THEN 1 ELSE 0
    IN  IF k > cap \div a
        THEN [over |-> TRUE, v |-> cap]
        ELSE IF ip + up > cap - k * a
             THEN [over |-> TRUE, v |-> cap]
             ELSE [over |-> FALSE, v |-> k * a + ip + up]

-----------------------------------------------------------------------------
(* Quantized dtypes and the tensor library's quantize / dequantize.        *)

QINT8_MIN == -128
QINT8_MAX == 127
QINT32_MAX == 2147483647

QMax(dtype) == CASE dtype = "qint8"  -> QINT8_MAX
                 [] dtype = "qint32" -> QINT32_MAX

QMin(dtype) == CASE dtype = "qint8"  -> QINT8_MIN
                 [] dtype = "qint32" -> -QINT32_MAX - 1

\* A real tensor element is m * s (an integer times a rational step).
Real(m, s) == [m |-> m, s |-> s]

RatToReal(r) == Real(r.n, Rat(1, r.d))

\* round(real / scale) as [over, neg, v]: the magnitude and sign of the
\* rounded quotient, over when it lies outside the 32-bit signed range.
RoundQuot(real, scale) ==
    LET A  == real.s.n * scale.d
        B  == real.s.d * scale.n
        g  == GCD(A, B)
        rm == RoundedMag(Abs(real.m), A \div g, B \div g, QINT32_MAX)
    IN  [over |-> rm.over, neg |-> real.m < 0, v |-> rm.v]

Clamp(v, lo, hi) == IF v < lo THEN lo ELSE IF v > hi THEN hi ELSE v

\* The integer that quantize stores for one element.
QuantizeVal(real, scale, zero_point, dtype) ==
    LET rq == RoundQuot(real, scale)
    IN  IF rq.over
        THEN IF rq.neg THEN QMin(dtype) ELSE QMax(dtype)
        ELSE Clamp((IF rq.neg THEN -rq.v ELSE rq.v) + zero_point,
                   QMin(dtype), QMax(dtype))

QTensor(shape, scale, zero_point, dtype, val) ==
    [kind |-> "qtensor", shape |-> shape, scale |-> scale,
     zero_point |-> zero_point, dtype |-> dtype, val |-> val]

FTensor(shape, val) == [kind |-> "tensor", shape |-> shape, val |-> val]

\* torch.quantize_linear(t, scale, zero_point, dtype)
quantize_linear(t, scale, zero_point, dtype) ==
    QTensor(t.shape, scale, zero_point, dtype,
            QuantizeVal(t.val, scale, zero_point, dtype))

\* Tensor.dequantize(): scale * (q - zero_point)
dequantize(q) == FTensor(q.shape, Real(q.val - q.zero_point, q.scale))

\* Tensor.permute(dims), dims 0-based as in the source
permute(t, dims) ==
    [t EXCEPT !.shape = [i \in 1..Len(dims) |-> t.shape[dims[i] + 1]]]

\* torch.nn.modules.utils._pair: a scalar argument is repeated
Pair(v) == IF Len(v) = 1 THEN <<v[1], v[1]>> ELSE v

-----------------------------------------------------------------------------
(* The compute backend's packed weight store (contract of spec 4.3).       *)

\* quantized::conv_prepack accepts a 4-d signed 8-bit quantized tensor
PrepackAccepts(w) ==
    w.kind = "qtensor" /\ w.dtype = "qint8" /\ Len(w.shape) = 4

\* quantized::conv_prepack: the opaque handle keeps the weight as handed
\* over (NHWC) with the structural parameters baked in
conv_prepack(w, stride, padding, dilation, groups) ==
    [kind |-> "packed", w |-> w, stride |-> stride, padding |-> padding,
     dilation |-> dilation, groups |-> groups]

\* quantized::conv_unpack: the tensor that was packed
conv_unpack(packed) == packed.w

-----------------------------------------------------------------------------
(* Conv2d: set_weight, weight, __init__.  Every method is an operator from *)
(* the module before the call to a result [err, mod, ...].                 *)

\* set_weight with weight_scale assigned before the weight is packed
set_weight_scale_first(m, w) ==
    IF Len(w.shape) # 4 \/ ~PrepackAccepts(permute(w, <<0, 2, 3, 1>>))
    THEN [err |-> "RuntimeError", mod |-> [m EXCEPT !.weight_scale = w.scale]]
    ELSE [err |-> "ok",
          mod |-> [m EXCEPT
              !._packed_weight =
                  conv_prepack(permute(w, <<0, 2, 3, 1>>), m.stride,
                               m.padding, m.dilation, m.groups),
              !.weight_scale = w.scale]]

\* Conv2d.set_weight(w)
set_weight(m, w) ==
    IF Len(w.shape) # 4
    THEN [err |-> "RuntimeError", mod |-> m]            \* w.permute raises
    ELSE LET wp == permute(w, <<0, 2, 3, 1>>)
         IN  IF ~PrepackAccepts(wp)
             THEN [err |-> "RuntimeError", mod |-> m]   \* conv_prepack raises
             ELSE [err |-> "ok",
                   mod |-> [m EXCEPT
                       !._packed_weight =
                           conv_prepack(wp, m.stride, m.padding,
                                        m.dilation, m.groups),
                       !.weight_scale = w.scale]]

\* weight with the packing permutation applied once more
weight_permuted_again(m) ==
    permute(conv_unpack(m._packed_weight), <<0, 2, 3, 1>>)

\* Conv2d.weight()
weight(m) == permute(conv_unpack(m._packed_weight), <<0, 3, 1, 2>>)

\* torch._empty_affine_quantized(shape, scale, zero_point, dtype): the
\* storage is uninitialized, val is whatever the allocator returned
empty_affine_quantized(shape, scale, zero_point, dtype, val) ==
    QTensor(shape, scale, zero_point, dtype, val)

\* the argument checks without the one on out_channels
init_validate_in_only(a) ==
    IF a.padding_mode # "zeros" THEN "NotImplementedError"
    ELSE IF a.in_channels % a.groups # 0 THEN "ValueError"
    ELSE "ok"

\* Conv2d.__init__, the argument checks: the exception raised, or "ok"
init_validate(a) ==
    IF a.padding_mode # "zeros" THEN "NotImplementedError"
    ELSE IF a.in_channels % a.groups # 0 THEN "ValueError"
    ELSE IF a.out_channels % a.groups # 0 THEN "ValueError"
    ELSE "ok"

\* the bias created with the default zero_point of an unsigned type
init_bias_zero_point(a, ub) ==
    IF a.bias
    THEN empty_affine_quantized(<<a.out_channels>>, RatOne, 128, "qint32", ub)
    ELSE None

\* Conv2d.__init__, the bias: uninitialized qint32 storage, or None
init_bias(a, ub) ==
    IF a.bias
    THEN empty_affine_quantized(<<a.out_channels>>, RatOne, 0, "qint32", ub)
    ELSE None

\* Conv2d.__init__; uw, ub: the contents of the uninitialized weight and
\* bias storage.  allocs counts the tensors allocated, packs the weights
\* packed, before the constructor returned or raised.
init(a, uw, ub) ==
    IF init_validate(a) # "ok"
    THEN [err |-> init_validate(a), mod |-> None, allocs |-> 0, packs |-> 0]
    ELSE
    LET ks == Pair(a.kernel_size)
        m0 == [in_channels    |-> a.in_channels,
               out_channels   |-> a.out_channels,
               kernel_size    |-> ks,
               stride         |-> Pair(a.stride),
               padding        |-> Pair(a.padding),
               dilation       |-> Pair(a.dilation),
               transposed     |-> FALSE,
               output_padding |-> 0,
               groups         |-> a.groups,
               padding_mode   |-> a.padding_mode,
               _packed_weight |-> None,
               weight_scale   |-> RatOne,
               bias           |-> None,
               scale          |-> RatOne,
               zero_point     |-> 0]
        qweight == empty_affine_quantized(
                       <<a.out_channels, a.in_channels \div a.groups,
                         ks[1], ks[2]>>, RatOne, 0, "qint8", uw)
        r == set_weight(m0, qweight)
    IN  IF r.err # "ok"
        THEN [err |-> r.err, mod |-> None, allocs |-> 1, packs |-> 0]
        ELSE [err |-> "ok",
              mod |-> [r.mod EXCEPT !.bias = init_bias(a, ub),
                                    !.scale = RatOne,
                                    !.zero_point = 0],
              allocs |-> IF a.bias THEN 2 ELSE 1,
              packs |-> 1]

-----------------------------------------------------------------------------
(* forward                                                                 *)

\* the requantization at the output scale instead of weight_scale
effective_bias_output_scale(m, input) ==
    IF m.bias # None
    THEN quantize_linear(dequantize(m.bias),
                         FloatMul(m.scale, input.scale), 0, "qint32")
    ELSE None

\* The bias forward hands to the kernel: None, or the stored bias
\* dequantized and requantized at weight_scale * input scale
effective_bias(m, input) ==
    IF m.bias # None
    THEN quantize_linear(dequantize(m.bias),
                         FloatMul(m.weight_scale, input.scale), 0, "qint32")
    ELSE None

\* forward with the rank check after the kernel call
forward_check_late(m, input) ==
    [err |-> IF Len(input.shape) # 4 THEN "ValueError" ELSE "ok",
     requant |-> m.bias # None,
     kernel |-> [kind |-> "conv2d",
                 input |-> input,
                 packed_weight |-> m._packed_weight,
                 bias |-> effective_bias(m, input),
                 stride |-> m.stride, padding |-> m.padding,
                 dilation |-> m.dilation, groups |-> m.groups,
                 scale |-> m.scale, zero_point |-> m.zero_point]]

\* Conv2d.forward(input): [err, requant, kernel]; kernel is None or the
\* argument list of the one ops.quantized.conv2d call, requant tells
\* whether the bias was requantized.  forward assigns no attribute.
forward(m, input) ==
    IF Len(input.shape) # 4
    THEN [err |-> "ValueError", requant |-> FALSE, kernel |-> None]
    ELSE [err |-> "ok",
          requant |-> m.bias # None,
          kernel |-> [kind |-> "conv2d",
                      input |-> permute(input, <<0, 2, 3, 1>>),
                      packed_weight |-> m._packed_weight,
                      bias |-> effective_bias(m, input),
                      stride |-> m.stride, padding |-> m.padding,
                      dilation |-> m.dilation, groups |-> m.groups,
                      scale |-> m.scale, zero_point |-> m.zero_point]]

-----------------------------------------------------------------------------
(* Serialization                                                           *)

F32_MANTISSA_BITS == 24

\* n / d scaled by 2^k into [2^23, 2^24), then rounded: the float32
\* mantissa and the (negated) exponent of n / d
RECURSIVE F32Norm(_, _, _)
F32Norm(n, d, k) ==
    IF n \div d >= Pow2(F32_MANTISSA_BITS)
    THEN F32Norm(n, 2 * d, k - 1)
    ELSE IF n \div d < Pow2(F32_MANTISSA_BITS - 1)
    THEN IF d % 2 = 0 THEN F32Norm(n, d \div 2, k + 1)
                      ELSE F32Norm(2 * n, d, k + 1)
    ELSE [m |-> RoundHalfEven(n, d), k |-> k]

\* The float32 nearest to a positive Python float
F32(r) ==
    IF r.n = 0 THEN r
    ELSE LET f == F32Norm(r.n, r.d, 0)
         IN  IF f.k >= 0 THEN Rat(f.m, Pow2(f.k)) ELSE Rat(f.m * Pow2(-f.k), 1)

\* torch.tensor(x) of a Python float (float32) and of a Python int (int64)
tensor_of_float(x) == [kind |-> "tensor", dtype |-> "float32", val |-> F32(x)]

tensor_of_int(x) == [kind |-> "tensor", dtype |-> "int64", val |-> x]

\* the export with the packed handle stored as the weight
save_to_state_dict_packed(m) ==
    [weight     |-> m._packed_weight,
     scale      |-> tensor_of_float(m.scale),
     zero_point |-> tensor_of_int(m.zero_point),
     bias       |-> m.bias]

\* Conv2d._save_to_state_dict: the entries written to destination (the
\* module registers no parameter and no buffer, so super() writes none)
save_to_state_dict(m) ==
    [weight     |-> weight(m),
     scale      |-> tensor_of_float(m.scale),
     zero_point |-> tensor_of_int(m.zero_point),
     bias       |-> m.bias]

\* Conv2d.__getstate__
getstate(m) ==
    <<m.in_channels, m.out_channels, m.kernel_size, m.stride, m.padding,
      m.dilation, m.transposed, m.output_padding, m.groups, m.padding_mode,
      weight(m), m.bias, m.scale, m.zero_point>>

Has(state_dict, key) == key \in DOMAIN state_dict

\* state_dict.pop(key): the dict without the key
Pop(state_dict, key) ==
    [k \in DOMAIN state_dict \ {key} |-> state_dict[k]]

\* Conv2d._load_from_state_dict: the assignments in source order, each
\* state_dict[...] raising KeyError when the key is missing and each
\* key popped from the caller's dict once it is used.  state_dict in the
\* result is the dict as the call leaves it.  (The module registers no
\* parameter and no buffer, and super() is called with strict False: it
\* assigns nothing and reports nothing.)
load_from_state_dict(m, state_dict) ==
    IF ~Has(state_dict, "weight")
    THEN [err |-> "KeyError", mod |-> m, state_dict |-> state_dict]
    ELSE LET r == set_weight(m, state_dict.weight)
    IN  IF r.err # "ok"
        THEN [err |-> r.err, mod |-> r.mod, state_dict |-> state_dict]
    ELSE LET d1 == Pop(state_dict, "weight")
    IN  IF ~Has(d1, "bias")
        THEN [err |-> "KeyError", mod |-> r.mod, state_dict |-> d1]
    ELSE LET m2 == [r.mod EXCEPT !.bias = d1.bias]
             d2 == Pop(d1, "bias")
    IN  IF ~Has(d2, "scale")
        THEN [err |-> "KeyError", mod |-> m2, state_dict |-> d2]
    ELSE LET m3 == [m2 EXCEPT !.scale = d2.scale.val]
             d3 == Pop(d2, "scale")
    IN  IF ~Has(d3, "zero_point")
        THEN [err |-> "KeyError", mod |-> m3, state_dict |-> d3]
    ELSE [err |-> "ok",
          mod |-> [m3 EXCEPT !.zero_point = d3.zero_point.val],
          state_dict |-> Pop(d3, "zero_point")]

\* Conv2d.__setstate__
setstate(m, state) ==
    LET m1 == [m EXCEPT !.in_channels = state[1],
                        !.out_channels = state[2],
                        !.kernel_size = state[3],
                        !.stride = state[4],
                        !.padding = state[5],
                        !.dilation = state[6],
                        !.transposed = state[7],
                        !.output_padding = state[8],
                        !.groups = state[9],
                        !.padding_mode = state[10]]
        r  == set_weight(m1, state[11])
    IN  IF r.err # "ok" THEN r
        ELSE [err |-> "ok",
              mod |-> [r.mod EXCEPT !.bias = state[12],
                                    !.scale = state[13],
                                    !.zero_point = state[14]]]

-----------------------------------------------------------------------------
(* from_float                                                              *)

FLOAT_MODULE == "nn.Conv2d"

\* The qat classes from_float's fake-quantizer path is written for (the
\* class it fuses and its unfused base; the disabled assert's __QAT_MODULE)
QAT_MODULES == {"nniqat.Conv2d", "nniqat.ConvBn2d"}

TWO_POW_16 == 65536

RealToRat(x) == Rat(x.m * x.s.n, x.s.d)

ISqrt(x) == CHOOSE k \in 0..x : k * k = x

RatSqrt(r) == Rat(ISqrt(r.n), ISqrt(r.d))

\* torch.nn.utils.fuse_conv_bn_weights (spec 4.2), per output channel:
\*   scale_c = gamma / sqrt(running_var + eps)
\*   fused_weight = weight * scale_c
\*   fused_bias = (bias - running_mean) * scale_c + beta
fuse_conv_bn_weights(w, b, running_mean, running_var, eps, gamma, beta) ==
    LET scale_c == RatDiv(gamma, RatSqrt(RatAdd(running_var, eps)))
    IN  [weight |-> FTensor(w.shape,
                       RatToReal(RatMul(RealToRat(w.val), scale_c))),
         bias   |-> FTensor(b.shape,
                       RatToReal(RatAdd(
                           RatMul(RatSub(RealToRat(b.val), running_mean),
                                  scale_c),
                           beta)))]

hasattr(obj, name) == obj[name] # None

\* from_float raising before cls(...) has returned
FromFloatFail(err, src, nquant, observed) ==
    [err |-> err, qconv |-> None, src |-> src, observed |-> observed,
     quantized |-> nquant, constructed |-> FALSE]

\* the gate with the assert compiled away
dtype_gate_off(weight_observer) == TRUE

\* assert weight_observer.dtype == torch.qint8
dtype_gate(weight_observer) == weight_observer.dtype = "qint8"

\* The tail of from_float, from calculate_qparams on: fm is the float
\* module (after the workaround that unwraps ConvReLU2d), observed tells
\* whether a fresh weight observer was run over fm.weight, u what the
\* constructor's uninitialized weight and bias storage holds
from_float_convert(src, fm, weight_observer, activation_observer, observed, u) ==
    LET act_scale == activation_observer.scale
        act_zp    == activation_observer.zero_point
    IN  IF ~dtype_gate(weight_observer)
        THEN FromFloatFail("AssertionError: dtype", src, 0, observed)
        ELSE
    LET wt_scale   == weight_observer.scale
        wt_zp      == weight_observer.zero_point
        bias_scale == FloatDivPow2(act_scale, TWO_POW_16)
        qweight    == quantize_linear(fm.weight, wt_scale, wt_zp, "qint8")
        c == init([in_channels  |-> fm.in_channels,
                   out_channels |-> fm.out_channels,
                   kernel_size  |-> fm.kernel_size,
                   stride       |-> fm.stride,
                   padding      |-> fm.padding,
                   dilation     |-> fm.dilation,
                   groups       |-> fm.groups,
                   bias         |-> fm.bias # None,
                   padding_mode |-> fm.padding_mode], u.w, u.b)
    IN  IF c.err # "ok" THEN FromFloatFail(c.err, src, 1, observed)
        ELSE
    LET r == set_weight(c.mod, qweight)
    IN  IF r.err # "ok"       \* cls(...) has returned, set_weight raises
        THEN [FromFloatFail(r.err, src, 1, observed)
                  EXCEPT !.constructed = TRUE]
        ELSE
    LET qbias == IF fm.bias # None
                 THEN quantize_linear(fm.bias, bias_scale, 0, "qint32")
                 ELSE None
    IN  [err |-> "ok",
         qconv |-> [r.mod EXCEPT !.bias = qbias,
                                 !.scale = act_scale,
                                 !.zero_point = act_zp],
         src |-> src,
         observed |-> observed,
         quantized |-> IF fm.bias # None THEN 2 ELSE 1,
         constructed |-> TRUE]

\* Conv2d.from_float(mod): [err, qconv, src, quantized, constructed];
\* src is the float module as the call leaves it, quantized the number
\* of quantize_linear calls made.
from_float(fmod, uw, ub) ==
    IF hasattr(fmod, "weight_fake_quant")
    THEN LET fm == IF fmod.type = "nniqat.ConvBn2d"
                   THEN LET f == fuse_conv_bn_weights(
                                     fmod.weight, fmod.bias,
                                     fmod.running_mean, fmod.running_var,
                                     fmod.eps, fmod.gamma, fmod.beta)
                        IN  [fmod EXCEPT !.weight = f.weight, !.bias = f.bias]
                   ELSE fmod
         IN  IF ~hasattr(fm, "observer")
             THEN FromFloatFail("AssertionError: observer", fm, 0, FALSE)
             ELSE from_float_convert(fm, fm, fm.weight_fake_quant,
                                     fm.observer, FALSE,
                                     [w |-> uw, b |-> ub])
    ELSE IF fmod.type # FLOAT_MODULE
    THEN FromFloatFail("AssertionError: type", fmod, 0, FALSE)
    ELSE IF ~hasattr(fmod, "qconfig")
    THEN FromFloatFail("AssertionError: qconfig", fmod, 0, FALSE)
    ELSE IF fmod.type = "nni.ConvReLU2d"
    THEN IF ~hasattr(fmod.children[2], "observer")
         THEN FromFloatFail("AttributeError", fmod, 0, FALSE)
         ELSE from_float_convert(fmod, fmod.children[1],
                                 fmod.children[1].qconfig.weight,
                                 fmod.children[2].observer, TRUE,
                                 [w |-> uw, b |-> ub])
    ELSE IF ~hasattr(fmod, "observer")
    THEN FromFloatFail("AttributeError", fmod, 0, FALSE)
    ELSE from_float_convert(fmod, fmod, fmod.qconfig.weight,
                            fmod.observer, TRUE, [w |-> uw, b |-> ub])

\* The spec's error taxonomy (section 7) for the exception err raised by
\* operation op
ErrorClass(op, err) ==
    CASE op = "init" /\ err \in {"NotImplementedError", "ValueError"}
                                             -> "ConfigError"
      [] op = "forward" /\ err = "ValueError" -> "ShapeError"
      [] op = "load_state_dict" /\ err = "KeyError" -> "StateError"
      [] op = "from_float" /\ err = "AssertionError: type"
                                             -> "TypeMismatch"
      [] op = "from_float" /\ err = "AssertionError: dtype"
                                             -> "UnsupportedDtype"
      [] op = "from_float"
         /\ err \in {"AssertionError: observer", "AssertionError: qconfig",
                     "NotImplementedError", "ValueError"}
                                             -> "ConfigError"
      [] OTHER                               -> err

-----------------------------------------------------------------------------
(* The inputs the operations are called with.                              *)

MaxChannels == 3
MaxGroups == 2
MaxRank == 5
MaxZeroPoint == 1

\* A shape of the given rank with pairwise distinct extents
ShapeOfRank(rank) == [i \in 1..rank |-> i + 1]

ConvArgs(ic, oc, ks, g, bias, pm) ==
    [in_channels |-> ic, out_channels |-> oc, kernel_size |-> ks,
     stride |-> <<g>>, padding |-> <<0>>, dilation |-> <<1>>,
     groups |-> g, bias |-> bias, padding_mode |-> pm]

\* Arguments of Conv2d(...): valid ones, ones whose in_channels or
\* out_channels the groups do not divide, and one with another padding
ConstructInputs ==
    { ConvArgs(ic, 2, <<3>>, g, g = 1, "zeros") :
        ic \in 2..MaxChannels, g \in 1..MaxGroups }
    \cup { ConvArgs(MaxGroups, MaxGroups + 1, <<1, 3>>, MaxGroups, TRUE,
                    "zeros"),
           ConvArgs(2, 2, <<3>>, 1, FALSE, "circular") }

\* What the uninitialized weight and bias storage of one construction
\* may hold
UninitStorage == { [w |-> 0, b |-> 10], [w |-> QINT8_MAX, b |-> QINT32_MAX] }

\* Arguments of set_weight: signed 8-bit tensors of rank 3..MaxRank, a
\* second scale, and an unsigned one
WeightInputs ==
    { QTensor(ShapeOfRank(rank), Rat(1, 2), 0, "qint8", 5) :
        rank \in 3..MaxRank }
    \cup { QTensor(ShapeOfRank(4), Rat(1, 128), 0, "qint8", 5),
           QTensor(ShapeOfRank(4), Rat(1, 2), 0, "quint8", 5) }

\* Arguments of forward: quantized activations of rank 3..MaxRank
ForwardInputs ==
    { QTensor(ShapeOfRank(rank), Rat(1, 2), 0, "quint8", 1) :
        rank \in 3..MaxRank }
    \cup { QTensor(ShapeOfRank(4), RatOne, 0, "quint8", 1) }

\* Bias tensors a stored state may carry
BiasInputs ==
    { QTensor(<<2>>, RatOne, zp, "qint32", 10) : zp \in 0..MaxZeroPoint }
    \cup {None}

\* State dicts not produced by this module's export
ExternalStateDicts ==
    { [weight |-> QTensor(ShapeOfRank(4), Rat(1, 2), 0, "qint8", 5),
       bias |-> b,
       scale |-> tensor_of_float(Rat(1, 128)),
       zero_point |-> tensor_of_int(MaxZeroPoint)] : b \in BiasInputs }

StateKeys == {"weight", "bias", "scale", "zero_point"}

\* A Python float that no float32 equals: 2^24 + 1, the least whole one
NotFloat32 == Rat(Pow2(F32_MANTISSA_BITS) + 1, 1)

\* State tuples not produced by this module's export
ExternalStates ==
    { <<2, 2, <<3, 3>>, <<2, 2>>, <<0, 0>>, <<1, 1>>, FALSE, 0, 1, "zeros",
        QTensor(ShapeOfRank(4), Rat(1, 2), 0, "qint8", 5), b,
        NotFloat32, MaxZeroPoint>> : b \in BiasInputs }

\* The qat classes that carry batch-norm statistics
BN_TYPES == {"nniqat.ConvBn2d", "nniqat.ConvBnReLU2d"}

Observer(dtype, scale, zero_point) ==
    [dtype |-> dtype, scale |-> scale, zero_point |-> zero_point]

\* A float module handed to from_float.  attach: which calibration
\* attachments it carries.
FloatModule(type, qat, attach, dtype, has_bias, act_zp) ==
    [type |-> type,
     weight_fake_quant |-> IF qat THEN Observer(dtype, Rat(1, 4), 0) ELSE None,
     qconfig |-> IF attach = "no_qconfig" \/ qat THEN None
                 ELSE [weight |-> Observer(dtype, Rat(1, 4), 0)],
     observer |-> IF attach = "no_observer" THEN None
                  ELSE Observer("quint8", Rat(1, 2), act_zp),
     weight |-> FTensor(<<2, 2, 1, 3>>, RatToReal(Rat(3, 2))),
     bias |-> IF has_bias THEN FTensor(<<2>>, RatToReal(Rat(10, 1))) ELSE None,
     running_mean |-> IF type \in BN_TYPES THEN Rat(1, 1) ELSE None,
     running_var |-> IF type \in BN_TYPES THEN Rat(15, 4) ELSE None,
     eps |-> IF type \in BN_TYPES THEN Rat(1, 4) ELSE None,
     gamma |-> IF type \in BN_TYPES THEN Rat(1, 1) ELSE None,
     beta |-> IF type \in BN_TYPES THEN Rat(1, 2) ELSE None,
     in_channels |-> 2, out_channels |-> 2, kernel_size |-> <<1, 3>>,
     stride |-> <<1, 1>>, padding |-> <<0, 0>>, dilation |-> <<1, 1>>,
     groups |-> 1, padding_mode |-> "zeros",
     children |-> None]

\* Post-training inputs: float convolutions with and without their
\* attachments, a module of another class, and a convolution whose
\* weight is not 4-d
PTQFloatModules ==
    { FloatModule("nn.Conv2d", FALSE, at, dt, TRUE, MaxZeroPoint) :
        at \in {"full", "no_observer", "no_qconfig"},
        dt \in {"qint8", "quint8"} }
    \cup { FloatModule("nn.Conv2d", FALSE, "full", "qint8", FALSE,
                       MaxZeroPoint),
           FloatModule("nni.ConvReLU2d", FALSE, "full", "qint8", TRUE,
                       MaxZeroPoint),
           [FloatModule("nn.Conv2d", FALSE, "full", "qint8", TRUE,
                        MaxZeroPoint)
                EXCEPT !.weight = FTensor(ShapeOfRank(3),
                                          RatToReal(Rat(3, 2)))] }

\* Quantization-aware-training inputs: modules carrying weight_fake_quant
QATFloatModules ==
    { FloatModule(t, TRUE, at, dt, TRUE, MaxZeroPoint) :
        t \in {"nniqat.Conv2d", "nniqat.ConvBn2d"},
        at \in {"full", "no_observer"}, dt \in {"qint8", "quint8"} }
    \cup { FloatModule("nniqat.ConvBnReLU2d", TRUE, "full", "qint8", TRUE,
                       MaxZeroPoint) }

FloatModules == PTQFloatModules \cup QATFloatModules

-----------------------------------------------------------------------------
(* The operations as actions.                                              *)

Init ==
    \E a \in ConstructInputs, u \in UninitStorage :
        LET r == init(a, u.w, u.b)
        IN  /\ r.err = "ok"
            /\ mod = r.mod
            /\ saved = [kind |-> "none"]
            /\ pristine = TRUE
            /\ last = [op |-> "init", err |-> r.err, args |-> a,
                       produced |-> r.mod # None,
                       allocs |-> r.allocs, packs |-> r.packs]

\* m = Conv2d(...): on an exception the name keeps the module it held
Construct(a, uw, ub) ==
    LET r == init(a, uw, ub)
    IN  /\ mod' = IF r.err = "ok" THEN r.mod ELSE mod
        /\ pristine' = IF r.err = "ok" THEN TRUE ELSE pristine
        /\ last' = [op |-> "init", err |-> r.err, args |-> a,
                    produced |-> r.mod # None,
                    allocs |-> r.allocs, packs |-> r.packs]
        /\ UNCHANGED saved

SetWeight(w) ==
    LET r == set_weight(mod, w)
    IN  /\ mod' = r.mod
        /\ last' = [op |-> "set_weight", err |-> r.err, w |-> w]
        /\ UNCHANGED <<saved, pristine>>

Forward(input) ==
    LET r == forward(mod, input)
    IN  /\ last' = [op |-> "forward", err |-> r.err, input |-> input,
                    requant |-> r.requant, kernel |-> r.kernel]
        /\ UNCHANGED <<mod, saved, pristine>>

\* saved = {}; m._save_to_state_dict(saved, '', False).  data is what
\* the dict holds, export what the call wrote into it, from the module
\* that wrote it
SaveStateDict ==
    /\ saved' = [kind |-> "state_dict", data |-> save_to_state_dict(mod),
                 export |-> save_to_state_dict(mod),
                 from |-> mod, pristine |-> pristine]
    /\ last' = [op |-> "save_state_dict", err |-> "ok"]
    /\ UNCHANGED <<mod, pristine>>

\* saved = m.__getstate__()
GetState ==
    /\ saved' = [kind |-> "tuple", data |-> getstate(mod),
                 export |-> getstate(mod),
                 from |-> mod, pristine |-> pristine]
    /\ last' = [op |-> "getstate", err |-> "ok"]
    /\ UNCHANGED <<mod, pristine>>

\* State dicts with a required key missing
TruncatedStateDicts ==
    { Pop(sd, k) :
        sd \in { d \in ExternalStateDicts :
                    d.bias # None /\ d.bias.zero_point = 0 },
        k \in StateKeys }

\* m._load_from_state_dict(state_dict, '', ...).  in_place: state_dict
\* is the dict saved itself, which the call's pops then change; else it
\* is another dict (one from elsewhere, or a copy of saved).
LoadStateDict(state_dict, in_place) ==
    LET r == load_from_state_dict(mod, state_dict)
    IN  /\ mod' = r.mod
        /\ pristine' = FALSE
        /\ last' = [op |-> "load_state_dict", err |-> r.err,
                    state |-> state_dict, left |-> r.state_dict]
        /\ saved' = IF in_place
                    THEN [saved EXCEPT !.data = r.state_dict]
                    ELSE saved

\* What __setstate__ may be handed after an export: the exported
\* tuple, or one from elsewhere
LoadableStates ==
    { st \in ExternalStates : st[12] # None /\ st[12].zero_point = 0 }
    \cup (IF saved.kind = "tuple" THEN {saved.data} ELSE {})

SetState(state) ==
    LET r == setstate(mod, state)
    IN  /\ mod' = r.mod
        /\ pristine' = FALSE
        /\ last' = [op |-> "setstate", err |-> r.err, state |-> state]
        /\ UNCHANGED saved

\* m = Conv2d.from_float(fmod)
FromFloat(fmod, uw, ub) ==
    LET r == from_float(fmod, uw, ub)
    IN  /\ mod' = IF r.err = "ok" THEN r.qconv ELSE mod
        /\ pristine' = IF r.err = "ok" THEN TRUE ELSE pristine
        /\ last' = [op |-> "from_float", err |-> r.err, fmod |-> fmod,
                    produced |-> r.qconv # None, src |-> r.src,
                    observed |-> r.observed,
                    quantized |-> r.quantized, constructed |-> r.constructed]
        /\ UNCHANGED saved

\* The module's lifecycle without exports: construction, weight
\* replacement, inference, conversion, and loads of states from elsewhere
Next ==
    \/ \E a \in ConstructInputs, u \in UninitStorage :
           Construct(a, u.w, u.b)
    \/ \E w \in WeightInputs : SetWeight(w)
    \/ \E input \in ForwardInputs : Forward(input)
    \/ \E state_dict \in ExternalStateDicts \cup TruncatedStateDicts :
           LoadStateDict(state_dict, FALSE)
    \/ \E state \in ExternalStates : SetState(state)
    \/ \E fmod \in FloatModules, u \in UninitStorage :
           FromFloat(fmod, u.w, u.b)

Spec == Init /\ [][Next]_vars

\* Export and import: a module is built, exported, and the export (or a
\* state from elsewhere) is loaded into whatever module the name holds
SerialConstructInputs ==
    { a \in ConstructInputs :
        a.padding_mode = "zeros" /\ a.in_channels = 2 /\ a.out_channels = 2 }

SerialWeightInputs ==
    { w \in WeightInputs :
        Len(w.shape) = 4 /\ w.dtype = "qint8" /\ w.scale = Rat(1, 128) }

\* Converted modules to export: a float and a fused one with float32
\* activation scales, and one whose activation observer reports a scale
\* that is no float32
SerialFloatModules ==
    { FloatModule(t, t # "nn.Conv2d", "full", "qint8", TRUE, MaxZeroPoint) :
        t \in {"nn.Conv2d", "nniqat.ConvBn2d"} }
    \cup { [FloatModule("nn.Conv2d", FALSE, "full", "qint8", FALSE,
                        MaxZeroPoint)
                EXCEPT !.observer.scale = NotFloat32] }

SerialExternalStateDicts ==
    { d \in ExternalStateDicts : d.bias # None /\ d.bias.zero_point = 0 }

NextSerial ==
    \/ \E a \in SerialConstructInputs, u \in UninitStorage :
           Construct(a, u.w, u.b)
    \/ \E w \in SerialWeightInputs : SetWeight(w)
    \/ SaveStateDict
    \/ GetState
    \/ \E state_dict \in SerialExternalStateDicts :
           LoadStateDict(state_dict, FALSE)
    \/ saved.kind = "state_dict" /\ LoadStateDict(saved.data, TRUE)
    \/ saved.kind = "state_dict" /\ LoadStateDict(saved.data, FALSE)
    \/ \E state \in LoadableStates : SetState(state)
    \/ \E fmod \in SerialFloatModules, u \in UninitStorage :
           FromFloat(fmod, u.w, u.b)

SpecSerial == Init /\ [][NextSerial]_vars

-----------------------------------------------------------------------------
(* Properties                                                              *)

\* The arguments violate an invariant of the convolution's configuration
InvalidConvArgs(a) ==
    \/ a.padding_mode # "zeros"
    \/ a.in_channels % a.groups # 0
    \/ a.out_channels % a.groups # 0

\* C10: constructing a module with an invalid configuration (groups not
\* dividing in_channels or out_channels, or a padding mode other than
\* zeros) fails with a ConfigError before any tensor is allocated and
\* before any weight is packed, and produces no module; the name the
\* result would have been bound to keeps its module.
C10_InvalidConfigRejectedEarly ==
    /\ [](last.op = "init" /\ InvalidConvArgs(last.args) =>
            /\ ErrorClass("init", last.err) = "ConfigError"
            /\ last.allocs = 0
            /\ last.packs = 0
            /\ ~last.produced)
    /\ [][last'.op = "init" /\ InvalidConvArgs(last'.args) => mod' = mod]_vars

\* out_channels is the argument at fault, in a state that held a module
\* with a replaced weight
C10_Witness ==
    /\ last.op = "init"
    /\ last.args.padding_mode = "zeros"
    /\ last.args.in_channels % last.args.groups = 0
    /\ last.args.out_channels % last.args.groups # 0
    /\ last.err = "ValueError"
    /\ mod.weight_scale # RatOne

\* C5: forward on an input whose rank is not 4 fails with a ShapeError
\* without requantizing the bias and without calling the kernel, and
\* leaves the module as it was.
C5_RankCheckedBeforeKernel ==
    /\ [](last.op = "forward" /\ Len(last.input.shape) # 4 =>
            /\ ErrorClass("forward", last.err) = "ShapeError"
            /\ ~last.requant
            /\ last.kernel = None)
    /\ [][last'.op = "forward" => mod' = mod]_vars

\* A rank-3 input to a module that has a bias to requantize
C5_Witness ==
    /\ last.op = "forward"
    /\ Len(last.input.shape) = 3
    /\ last.err = "ValueError"
    /\ mod.bias # None

\* C4: set_weight(w) is atomic over (packed weight, weight_scale): on
\* success the packed weight is the pack of w (in the kernel's layout)
\* with the module's stride, padding, dilation and groups and
\* weight_scale is w's scale, on failure neither changes; so in every
\* state weight_scale is the scale of the tensor the packed weight was
\* produced from.
C4_SetWeightAtomic ==
    /\ [](mod.weight_scale = conv_unpack(mod._packed_weight).scale)
    /\ [][last'.op = "set_weight" =>
            IF last'.err = "ok"
            THEN /\ mod'._packed_weight =
                        conv_prepack(permute(last'.w, <<0, 2, 3, 1>>),
                                     mod.stride, mod.padding,
                                     mod.dilation, mod.groups)
                 /\ mod'.weight_scale = last'.w.scale
            ELSE /\ mod'._packed_weight = mod._packed_weight
                 /\ mod'.weight_scale = mod.weight_scale]_vars

\* A set_weight that failed with a tensor whose scale differs from the
\* module's
C4_Witness ==
    /\ last.op = "set_weight"
    /\ last.err # "ok"
    /\ last.w.scale # mod.weight_scale

\* round(real stored bias / (scale of the installed weight * input scale))
BiasQuotient(m, input) ==
    RoundQuot(dequantize(m.bias).val, RatMul(weight(m).scale, input.scale))

\* The bias forward handed the kernel has the scale, zero_point and dtype
\* the requantization is specified with (or is absent with the bias)
EffectiveBiasParams ==
    last.op = "forward" /\ last.err = "ok" =>
        IF mod.bias # None
        THEN /\ last.requant
             /\ last.kernel.bias.scale =
                    RatMul(weight(mod).scale, last.input.scale)
             /\ last.kernel.bias.zero_point = 0
             /\ last.kernel.bias.dtype = "qint32"
        ELSE last.kernel.bias = None

\* C6 as stated: the integer value handed to the kernel is
\* round(real_bias / (weight_scale * input.scale)).  (A quotient beyond
\* the 32-bit signed range cannot equal a 32-bit value.)
C6_EffectiveBiasIsRoundedQuotient ==
    /\ EffectiveBiasParams
    /\ (last.op = "forward" /\ last.err = "ok" /\ mod.bias # None =>
          LET rq == BiasQuotient(mod, last.input)
          IN  /\ ~rq.over
              /\ last.kernel.bias.val = IF rq.neg THEN -rq.v ELSE rq.v)

\* C6 (amended): on every forward call on a module with a bias, the bias
\* handed to the kernel is the stored bias dequantized and requantized
\* with scale weight_scale * input.scale, zero_point 0 and the 32-bit
\* signed type, so its integer value is round(real_bias / (weight_scale *
\* input.scale)) saturated to the 32-bit signed range; the stored bias is
\* unchanged, and a module without bias hands the kernel no bias.
C6_EffectiveBiasIsSaturatedQuotient ==
    /\ [](/\ EffectiveBiasParams
          /\ (last.op = "forward" /\ last.err = "ok" /\ mod.bias # None =>
                LET rq == BiasQuotient(mod, last.input)
                IN  last.kernel.bias.val =
                        IF rq.over
                        THEN IF rq.neg THEN -QINT32_MAX - 1 ELSE QINT32_MAX
                        ELSE IF rq.neg THEN -rq.v ELSE rq.v))
    /\ [][last'.op = "forward" => mod'.bias = mod.bias]_vars

\* weight_scale 1/128, input scale 0.5, stored bias of real value 10.0:
\* the kernel gets scale 1/256 and integer round(10.0 * 256) = 2560
C6_Witness ==
    /\ last.op = "forward"
    /\ last.err = "ok"
    /\ mod.bias # None
    /\ mod.weight_scale = Rat(1, 128)
    /\ last.input.scale = Rat(1, 2)
    /\ RealToRat(dequantize(mod.bias).val) = Rat(10, 1)
    /\ last.kernel.bias.scale = Rat(1, 256)
    /\ last.kernel.bias.val = 2560

\* The weight observer from_float consults for a float module, if any
WeightObserverOf(f) ==
    IF f.weight_fake_quant # None THEN f.weight_fake_quant
    ELSE IF f.qconfig # None THEN f.qconfig.weight
    ELSE None

WrongObserverDtype(f) ==
    WeightObserverOf(f) # None /\ WeightObserverOf(f).dtype # "qint8"

\* C7 as stated: with a weight observer of another dtype than qint8,
\* from_float fails with UnsupportedDtype, nothing has been quantized, no
\* module constructed, and the source module is as it was.
C7_DtypeGateLeavesSourceUntouched ==
    last.op = "from_float" /\ WrongObserverDtype(last.fmod) =>
        /\ ErrorClass("from_float", last.err) = "UnsupportedDtype"
        /\ last.quantized = 0
        /\ ~last.constructed
        /\ ~last.produced
        /\ last.src = last.fmod

\* The checks from_float makes before the dtype gate
PrecedingChecksPass(f) ==
    IF f.weight_fake_quant # None
    THEN f.observer # None
    ELSE f.type = FLOAT_MODULE /\ f.qconfig # None /\ f.observer # None

\* The source module after the fusion step of the fake-quantizer path
AfterFusion(f) ==
    IF f.weight_fake_quant # None /\ f.type = "nniqat.ConvBn2d"
    THEN LET w == fuse_conv_bn_weights(f.weight, f.bias, f.running_mean,
                                       f.running_var, f.eps, f.gamma, f.beta)
         IN  [f EXCEPT !.weight = w.weight, !.bias = w.bias]
    ELSE f

\* C7 (amended): with a weight observer of another dtype than qint8,
\* from_float fails before any quantization: no weight or bias has been
\* quantized and no quantized module constructed.  The error is
\* UnsupportedDtype when the checks that precede the dtype gate pass.
\* The source module is as it was, except that on the fake-quantizer
\* path a ConvBn2d already holds the fused weight and bias.
C7_DtypeGatePrecedesQuantization ==
    last.op = "from_float" /\ WrongObserverDtype(last.fmod) =>
        /\ last.err # "ok"
        /\ (PrecedingChecksPass(last.fmod) =>
              ErrorClass("from_float", last.err) = "UnsupportedDtype")
        /\ last.quantized = 0
        /\ ~last.constructed
        /\ ~last.produced
        /\ last.src = AfterFusion(last.fmod)

\* The dtype gate rejected a ConvBn2d whose weight the fusion had
\* already replaced
C7_Witness ==
    /\ last.op = "from_float"
    /\ WrongObserverDtype(last.fmod)
    /\ last.err = "AssertionError: dtype"
    /\ last.src.weight # last.fmod.weight

BiasZeroPointIsZero(m) == m.bias = None \/ m.bias.zero_point = 0

\* C8 as stated: whenever a bias is present its zero_point is 0.
C8_BiasZeroPointAlwaysZero == BiasZeroPointIsZero(mod)

\* The bias a state handed to a load carries, None when it carries none
CarriedBias(op, state) ==
    IF op = "setstate" THEN state[12]
    ELSE IF Has(state, "bias") THEN state.bias ELSE None

\* C8 (amended): the stored bias's zero_point is 0 after construct and
\* after from_float, and stays 0 under every operation except a state
\* dict load or __setstate__ whose state carries a bias with another
\* zero_point, which is stored as it is.
C8_BiasZeroPointZeroUnlessLoaded ==
    /\ [](last.op \in {"init", "from_float"} /\ last.err = "ok" =>
            BiasZeroPointIsZero(mod))
    /\ [][BiasZeroPointIsZero(mod) /\ ~BiasZeroPointIsZero(mod') =>
            /\ last'.op \in {"load_state_dict", "setstate"}
            /\ mod'.bias = CarriedBias(last'.op, last'.state)]_vars

\* A load of a state whose bias has zero_point 0 replaced the bias
C8_Witness ==
    /\ last.op = "load_state_dict"
    /\ last.err = "ok"
    /\ mod.bias # None
    /\ mod.bias = last.state.bias
    /\ mod.bias.zero_point = 0

\* C3: a load of a state dict that lacks weight, bias, scale or
\* zero_point fails with a StateError and leaves the packed weight,
\* weight_scale, bias, scale and zero_point as they were.
C3_FailedLoadChangesNothing ==
    [][last'.op = "load_state_dict" /\ StateKeys \ DOMAIN last'.state # {} =>
          /\ ErrorClass("load_state_dict", last'.err) = "StateError"
          /\ mod'._packed_weight = mod._packed_weight
          /\ mod'.weight_scale = mod.weight_scale
          /\ mod'.bias = mod.bias
          /\ mod'.scale = mod.scale
          /\ mod'.zero_point = mod.zero_point]_vars

\* C9: from_float on a module of a class it is not written for (neither
\* the float class nor, on the fake-quantizer path, a qat class it
\* handles) fails with TypeMismatch and returns no module.
C9_TypeMismatchOnBothPaths ==
    last.op = "from_float"
    /\ last.fmod.type \notin ({FLOAT_MODULE} \cup QAT_MODULES) =>
        /\ ErrorClass("from_float", last.err) = "TypeMismatch"
        /\ ~last.produced

\* A value that can leave the process: a tensor or None, never the
\* backend's packed handle
Portable(v) == v.kind \in {"qtensor", "tensor", "None"}

\* C1: every value the module exports, through the state dict or the
\* state tuple, is portable: the exported weight is the unpacked
\* quantized tensor weight() returns, with the quantization parameters
\* the module caches, and the packed weight handle is in no entry.
C1_ExportsArePortable ==
    /\ (saved.kind = "state_dict" =>
          /\ DOMAIN saved.export = StateKeys
          /\ \A k \in StateKeys : Portable(saved.export[k])
          /\ saved.export.weight = weight(saved.from)
          /\ saved.export.weight.kind = "qtensor"
          /\ saved.export.weight.scale = saved.from.weight_scale
          /\ saved.export.bias = saved.from.bias
          /\ \A k \in DOMAIN saved.data : saved.data[k] = saved.export[k])
    /\ (saved.kind = "tuple" =>
          /\ Len(saved.data) = 14
          /\ Portable(saved.data[11])
          /\ Portable(saved.data[12])
          /\ saved.data[11] = weight(saved.from)
          /\ saved.data[11].kind = "qtensor"
          /\ saved.data[11].scale = saved.from.weight_scale
          /\ saved.data[12] = saved.from.bias
          /\ SubSeq(saved.data, 1, 10) =
                 <<saved.from.in_channels, saved.from.out_channels,
                   saved.from.kernel_size, saved.from.stride,
                   saved.from.padding, saved.from.dilation,
                   saved.from.transposed, saved.from.output_padding,
                   saved.from.groups, saved.from.padding_mode>>
          /\ saved.data[13] = saved.from.scale
          /\ saved.data[14] = saved.from.zero_point)

\* A state dict exported from a module that had itself been loaded and
\* given another weight
C1_Witness ==
    /\ saved.kind = "state_dict"
    /\ ~saved.pristine
    /\ saved.from.bias # None
    /\ saved.from.weight_scale = Rat(1, 128)

\* What the kernel is configured with
Structure(m) == <<m.stride, m.padding, m.dilation, m.groups>>

\* Two modules no forward call can tell apart
Equivalent(a, b) ==
    /\ weight(a) = weight(b)
    /\ a.weight_scale = b.weight_scale
    /\ a.bias = b.bias
    /\ a.scale = b.scale
    /\ a.zero_point = b.zero_point
    /\ Structure(a) = Structure(b)
    /\ \A input \in ForwardInputs : forward(a, input) = forward(b, input)

\* The last call loaded the export of a module built by construct,
\* set_weight and from_float alone
LoadedTheExport ==
    /\ last.op \in {"load_state_dict", "setstate"}
    /\ last.err = "ok"
    /\ saved.kind = IF last.op = "setstate" THEN "tuple" ELSE "state_dict"
    /\ last.state = saved.export
    /\ saved.pristine

\* C2 as stated: loading the state saved from m, by either path, yields
\* a module equivalent to m.
C2_LoadOfSaveIsEquivalent ==
    LoadedTheExport => Equivalent(mod, saved.from)

\* The output scale is one a float32 holds exactly
ScaleIsFloat32(m) == F32(m.scale) = m.scale

\* C2 (amended): loading the tuple saved from m by __setstate__ yields a
\* module equivalent to m.  Loading the state dict saved from m yields a
\* module with m's weight(), weight_scale, bias and output zero_point,
\* with m's output scale rounded to float32 (the state dict stores it as
\* a float32 tensor), and with the stride, padding, dilation and groups
\* the receiving module had, which the state dict does not carry and
\* the load does not assign; so it is equivalent to m when the receiving
\* module has m's stride, padding, dilation and groups and m's output
\* scale is a float32 value.
C2_LoadOfSaveRestoresState ==
    /\ [](LoadedTheExport =>
            IF last.op = "setstate"
            THEN Equivalent(mod, saved.from)
            ELSE /\ weight(mod) = weight(saved.from)
                 /\ mod.weight_scale = saved.from.weight_scale
                 /\ mod.bias = saved.from.bias
                 /\ mod.zero_point = saved.from.zero_point
                 /\ mod.scale = F32(saved.from.scale)
                 /\ (Structure(mod) = Structure(saved.from)
                     /\ ScaleIsFloat32(saved.from)
                        => Equivalent(mod, saved.from)))
    /\ [][last'.op = "load_state_dict" =>
              Structure(mod') = Structure(mod)]_vars

\* The state dict of a converted module loaded into a module that was
\* constructed apart from it with the same structure
C2_Witness ==
    /\ LoadedTheExport
    /\ last.op = "load_state_dict"
    /\ Structure(mod) = Structure(saved.from)
    /\ ScaleIsFloat32(saved.from)
    /\ mod.kernel_size # saved.from.kernel_size
    /\ saved.from.scale # RatOne
    /\ mod.bias # None

=============================================================================
